---- MODULE Spec2Model ----
(***************************************************************************)
(* LightWorks hardware scripts: the Jankomotor 8812 stage controller       *)
(* (hardware/Jankomotor8812/scripts/jankomotor_controller.py).             *)
(*                                                                         *)
(* SimpleJankomotorController is a single-threaded request/response client *)
(* over a serial line.  The model keeps the controller's fields            *)
(* (serial_conn, enabled, position), the Python call stack of the one      *)
(* caller thread, and a log of what crossed the serial channel.  Text is   *)
(* modelled as sequences of one-character strings, so that encoding,       *)
(* decoding, strip, split and int() do what the Python code does.  The     *)
(* device is the environment: readline() returns any line, none within     *)
(* the timeout, or, from a slow device, the late reply to an earlier       *)
(* command.                                                                *)
(*                                                                         *)
(* The camera and template controllers (hardware/DMK37/scripts,            *)
(* hardware/device-template/scripts) are modelled method by method, the    *)
(* platform driver and the capability table being their environment.       *)
(***************************************************************************)
EXTENDS Integers, Sequences, FiniteSets, TLC

(***************************************************************************)
(* Bounds of the model.                                                    *)
(***************************************************************************)
\* Coordinates the caller passes and the device reports lie in -MaxPos..MaxPos.
MaxPos == 1
\* The channel log keeps the last MaxLog events of the call in progress.
MaxLog == 6
\* The square raster scans (0,0)->(n,n) step (1,1) run for n in 0..MaxGrid.
MaxGrid == 2

(***************************************************************************)
(* Text: str and bytes as sequences of one-character strings.              *)
(***************************************************************************)
\* A byte no ASCII codec decodes (>= 0x80).
NonAscii == "0xFF"

\* str.strip() / str.split() whitespace.
Whitespace == {" ", "\t", "\n", "\r", "\f"}

Digits == <<"0", "1", "2", "3", "4", "5", "6", "7", "8", "9">>

DigitSet == {Digits[i] : i \in 1..10}

DigitVal(c) == (CHOOSE i \in 1..10 : Digits[i] = c) - 1

\* bytes.decode('ascii'): UnicodeDecodeError on any byte >= 0x80.
Decodable(bytes) == \A i \in 1..Len(bytes) : bytes[i] # NonAscii

RECURSIVE LStrip(_)
LStrip(s) ==
    IF s # <<>> /\ Head(s) \in Whitespace THEN LStrip(Tail(s)) ELSE s

RECURSIVE RStrip(_)
RStrip(s) ==
    IF s # <<>> /\ s[Len(s)] \in Whitespace
    THEN RStrip(SubSeq(s, 1, Len(s) - 1))
    ELSE s

\* str.strip()
Strip(s) == RStrip(LStrip(s))

\* str.startswith(prefix)
StartsWith(s, prefix) ==
    /\ Len(s) >= Len(prefix)
    /\ SubSeq(s, 1, Len(prefix)) = prefix

\* `sub in s` for strings
Contains(s, sub) ==
    \E i \in 0..(Len(s) - Len(sub)) : SubSeq(s, i + 1, i + Len(sub)) = sub

\* Where the first field of s ends: the index of its first whitespace
\* character, Len(s) + 1 if it has none.
FieldEnd(s) ==
    IF \E i \in 1..Len(s) : s[i] \in Whitespace
    THEN CHOOSE i \in 1..Len(s) :
            s[i] \in Whitespace /\ \A j \in 1..(i - 1) : s[j] \notin Whitespace
    ELSE Len(s) + 1

\* str.split(): split on runs of whitespace, no empty fields; one field
\* of the rest of the string at a time.
RECURSIVE SplitWs(_, _)
SplitWs(s, acc) ==
    IF LStrip(s) = <<>>
    THEN acc
    ELSE SplitWs(SubSeq(LStrip(s), FieldEnd(LStrip(s)), Len(LStrip(s))),
                 Append(acc, SubSeq(LStrip(s), 1, FieldEnd(LStrip(s)) - 1)))

Split(s) == SplitWs(s, <<>>)

\* str.split('='): split at every '=', empty fields kept.
RECURSIVE SplitAt(_, _, _, _)
SplitAt(s, sep, cur, acc) ==
    IF s = <<>>
    THEN Append(acc, cur)
    ELSE IF Head(s) = sep
         THEN SplitAt(Tail(s), sep, <<>>, Append(acc, cur))
         ELSE SplitAt(Tail(s), sep, Append(cur, Head(s)), acc)

SplitEq(s) == SplitAt(s, "=", <<>>, <<>>)

\* str(n) / f"{n}" for an int.
RECURSIVE NatStr(_)
NatStr(n) ==
    IF n < 10 THEN <<Digits[n + 1]>>
    ELSE Append(NatStr(n \div 10), Digits[(n % 10) + 1])

IntStr(n) == IF n < 0 THEN <<"-">> \o NatStr(-n) ELSE NatStr(n)

RECURSIVE DigitsVal(_, _)
DigitsVal(s, acc) ==
    IF s = <<>> THEN acc ELSE DigitsVal(Tail(s), 10 * acc + DigitVal(Head(s)))

\* int(s): an optional sign and at least one digit, else ValueError (the
\* blanks and digit-separating underscores int() also takes occur in no
\* token of RxLines).
IntBody(s) == IF s # <<>> /\ Head(s) \in {"+", "-"} THEN Tail(s) ELSE s

IsInt(s) ==
    /\ IntBody(s) # <<>>
    /\ \A i \in 1..Len(IntBody(s)) : IntBody(s)[i] \in DigitSet

ParseInt(s) ==
    IF Head(s) = "-" THEN -DigitsVal(IntBody(s), 0) ELSE DigitsVal(IntBody(s), 0)

(***************************************************************************)
(* The wire protocol's literals.                                           *)
(***************************************************************************)
OK == <<"O", "K">>

READY == <<"R", "E", "A", "D", "Y">>

POS_PREFIX == <<"P", "O", "S", " ", "X", "=">>

ENABLE == <<"E", "N", "A", "B", "L", "E">>

DISABLE == <<"D", "I", "S", "A", "B", "L", "E">>

POSITION == <<"P", "O", "S", "I", "T", "I", "O", "N">>

HOME == <<"H", "O", "M", "E">>

STOP == <<"S", "T", "O", "P">>

\* f"MOVE X {x_steps}" / f"MOVE Y {y_steps}"
MoveCmd(axis, steps) == <<"M", "O", "V", "E", " ", axis, " ">> \o IntStr(steps)

\* f"SET_LIMITS {x_min} {x_max} {y_min} {y_max}"
SetLimitsCmd(x_min, x_max, y_min, y_max) ==
    <<"S", "E", "T", "_", "L", "I", "M", "I", "T", "S", " ">>
        \o IntStr(x_min) \o <<" ">> \o IntStr(x_max) \o <<" ">>
        \o IntStr(y_min) \o <<" ">> \o IntStr(y_max)

(***************************************************************************)
(* What the serial channel may deliver to one readline(): raw bytes.  The  *)
(* device is the environment (a mock): any of these lines may answer any   *)
(* command.  The empty line is a read timeout.                             *)
(***************************************************************************)
Coord == -MaxPos..MaxPos

PosLine(x, y) ==
    POS_PREFIX \o IntStr(x) \o <<" ", "Y", "=">> \o IntStr(y) \o <<"\r", "\n">>

\* Positions the device reports: the origin, a near one, a far one.
ReportedPos == {<<0, 0>>, <<1, -1>>, <<12, -3>>}

TimeoutLine == <<>>

OkLine == <<"O", "K", "\r", "\n">>

ErrLine == <<"E", "R", "R", "\n">>

\* "POS X=1": the Y token is missing.
PosShortLine == POS_PREFIX \o <<"1", "\n">>

\* "POS X=a Y=b": the values are no integers.
PosAlphaLine == POS_PREFIX \o <<"a", " ", "Y", "=", "b", "\n">>

ReadyLine == <<"R", "E", "A", "D", "Y", "\n">>

\* A boot banner with READY inside a longer line.
BannerLine == <<"J", "M", " ", "R", "E", "A", "D", "Y", " ", "v", "1", "\r", "\n">>

\* Line noise: a byte outside ASCII.
NoiseLine == <<NonAscii, "\n">>

STATUS_PREFIX == <<"S", "T", "A", "T", "U", "S">>

SAFETY_PREFIX == <<"S", "A", "F", "E", "T", "Y">>

\* A full status report: enabled, not moving, at (1,-1).
StatusLine ==
    <<"S", "T", "A", "T", "U", "S", " ", "e", "n", "a", "b", "l", "e", "d",
      "=", "1", " ", "m", "o", "v", "i", "n", "g", "=", "0", " ", "x", "_",
      "p", "o", "s", "=", "1", " ", "y", "_", "p", "o", "s", "=", "-", "1",
      "\r", "\n">>

\* "STATUS": the prefix and no field.
StatusBareLine == STATUS_PREFIX \o <<"\n">>

\* A full safety report: the X minimum limit switch is hit.
SafetyLine ==
    <<"S", "A", "F", "E", "T", "Y", " ", "e", "m", "e", "r", "g", "e", "n",
      "c", "y", "_", "s", "t", "o", "p", "=", "0", " ", "x", "_", "l", "i",
      "m", "i", "t", "_", "m", "i", "n", "=", "1", " ", "x", "_", "l", "i",
      "m", "i", "t", "_", "m", "a", "x", "=", "0", " ", "y", "_", "l", "i",
      "m", "i", "t", "_", "m", "i", "n", "=", "0", " ", "y", "_", "l", "i",
      "m", "i", "t", "_", "m", "a", "x", "=", "0", " ", "c", "u", "r", "r",
      "e", "n", "t", "_", "o", "v", "e", "r", "l", "o", "a", "d", "=", "0",
      "\r", "\n">>

\* "SAFETY emergency_stop=1": five fields are missing.
SafetyShortLine ==
    <<"S", "A", "F", "E", "T", "Y", " ", "e", "m", "e", "r", "g", "e", "n",
      "c", "y", "_", "s", "t", "o", "p", "=", "1", "\n">>

RxLines ==
    {TimeoutLine, OkLine, ErrLine, PosShortLine, PosAlphaLine,
     ReadyLine, BannerLine, NoiseLine,
     StatusLine, StatusBareLine, SafetyLine, SafetyShortLine}
        \cup {PosLine(p[1], p[2]) : p \in ReportedPos}

(***************************************************************************)
(* State.                                                                  *)
(***************************************************************************)
VARIABLES
    serial_conn,  \* self.serial_conn: "None", or a Serial that is "open" or "closed"
    enabled,      \* self.enabled
    position,     \* self.position, a Position(x, y)
    stack,        \* the caller thread's call stack: frames [m, pc, v], innermost last
    ret,          \* the value the last call returned
    exc,          \* the exception that ended the call in progress ("" for none)
    call,         \* the public method the caller invoked last: [op, args]
    entry,        \* serial_conn, enabled and position when that call began
    log,          \* channel events of that call: open, w (write() was called
                  \* with these bytes), r (readline() returned them), close
    calls,        \* the scan callback's invocations during that call: its arguments,
                  \* and the cached position at the time
    track,        \* C1's bookkeeping: the sum of the deltas of a run of move_relative calls
    outstanding,  \* commands written whose readline() has not yet come back
    wire,         \* the port's input side: due, a reply that came in after its
                  \* command's readline() had timed out and is still unread;
                  \* answers, the command the line read last replied to
    camera,       \* the DMK37Controller's fields
    template,     \* the TemplateController's fields
    capabilities, \* get_capabilities(): the platform's entry of device-config.json, per module
    driver_calls  \* what the call in progress asked of the platform driver

\* The camera and template modules (hardware/DMK37, hardware/device-template).
devices == <<camera, template, capabilities, driver_calls>>

vars ==
    <<serial_conn, enabled, position, stack, ret, exc, call, entry, log, calls, track,
      outstanding, wire, camera, template, capabilities, driver_calls>>

Position(x, y) == [x |-> x, y |-> y]

\* Return values, one shape for all: t says which field counts.
RetNone ==
    [t |-> "None", b |-> FALSE, s |-> <<>>, p |-> Position(0, 0),
     status |-> [enabled |-> FALSE, moving |-> FALSE, x_pos |-> 0, y_pos |-> 0],
     safety |-> <<FALSE, FALSE, FALSE, FALSE, FALSE, FALSE>>]

RetBool(b) == [RetNone EXCEPT !.t = "bool", !.b = b]

RetStr(s) == [RetNone EXCEPT !.t = "str", !.s = s]

RetPos(p) == [RetNone EXCEPT !.t = "Position", !.p = p]

\* get_status's dict
RetStatus(d) == [RetNone EXCEPT !.t = "status", !.status = d]

\* get_safety_status's dict, its six flags in the order of lines 211-216
RetSafety(d) == [RetNone EXCEPT !.t = "safety", !.safety = d]

Frame(m, v) == [m |-> m, pc |-> "start", v |-> v]

Top == stack[Len(stack)]

At(m, pc) == stack # <<>> /\ Top.m = m /\ Top.pc = pc

\* The frame on top moves to pc.
Goto(pc) == [stack EXCEPT ![Len(stack)].pc = pc]

\* The frame on top calls `frame` and resumes at pc when it returns.
CallFrom(pc, frame) == Append(Goto(pc), frame)

Event(k, d) == [k |-> k, d |-> d]

Logged(ev) ==
    IF Len(log) < MaxLog THEN Append(log, ev) ELSE Append(Tail(log), ev)

\* return value
Return(value) ==
    /\ stack' = SubSeq(stack, 1, Len(stack) - 1)
    /\ ret' = value
    /\ exc' = exc

\* raise e: no frame of the controller below a command handles it
\* (the only except clause, connect's, is modelled in connect_open).
Raise(e) ==
    /\ stack' = <<>>
    /\ ret' = RetNone
    /\ exc' = e

Done == stack = <<>> /\ call.op # "none"

Returned == Done /\ exc = ""

NoTrack == [on |-> FALSE, x |-> 0, y |-> 0]

\* No command (as the one a line replied to).
NoCommand == <<"-">>

\* No reply is waiting unread in the port.
NoReply == [cmd |-> NoCommand, line |-> <<>>]

\* The port of a device that replies within the read timeout or not at all.
NoWire == [slow |-> FALSE, due |-> NoReply, answers |-> NoCommand]

\* What a device that was slower than the read timeout sends in the end.
LateLines == {OkLine, PosLine(1, -1)}

\* A reply that missed its readline(): it never comes, or, the device being
\* one that can take longer than the read timeout (wire.slow), comes in later.
Late(command) ==
    {NoReply} \cup
        (IF wire.slow THEN {[cmd |-> command, line |-> l] : l \in LateLines} ELSE {})

\* readline() (lines 55, 83) returns the oldest unread line: a late reply
\* that is waiting in the port comes out first.
Readable(line) == wire.due # NoReply => line = wire.due.line

\* The port after readline() returned `line` to the read of `command`: an
\* empty line (the timeout) replied to nothing, and the reply it waited for
\* may still come in; a late reply that was read replied to an earlier
\* command, and the reply to this one is late in its turn.
Received(command, line) ==
    IF wire.due # NoReply
    THEN {[wire EXCEPT !.due = d, !.answers = wire.due.cmd] : d \in Late(command)}
    ELSE IF line = TimeoutLine
    THEN {[wire EXCEPT !.due = d, !.answers = NoCommand] : d \in Late(command)}
    ELSE {[wire EXCEPT !.due = NoReply, !.answers = command]}

(***************************************************************************)
(* The caller invokes a public method: a new frame, and a fresh record of  *)
(* what the call does.                                                     *)
(***************************************************************************)
Invoke(m, v) ==
    /\ stack = <<>>
    /\ stack' = <<Frame(m, v)>>
    /\ call' = [op |-> m, args |-> v]
    /\ entry' = [serial_conn |-> serial_conn, enabled |-> enabled, position |-> position]
    /\ log' = <<>>
    /\ calls' = <<>>
    /\ ret' = RetNone
    /\ exc' = ""
    /\ wire' = [wire EXCEPT !.answers = NoCommand]
    /\ UNCHANGED <<serial_conn, enabled, position>>
    /\ UNCHANGED <<outstanding, devices>>

(***************************************************************************)
(* connect (lines 44-67)                                                   *)
(***************************************************************************)
\* A faulty banner test: any line that is not empty.
BannerReadyAny(response) == response # <<>>

\* line 58: "READY" in response
BannerReady(response) == Contains(response, READY)

\* lines 46-52: serial.Serial(...) opens the port, or raises SerialException,
\* which line 65 catches: self.serial_conn is then not assigned.
connect_open ==
    /\ At("connect", "start")
    /\ \/ /\ serial_conn' = "open"
          /\ log' = Logged(Event("open", <<>>))
          /\ stack' = Goto("banner")
          /\ wire' = [wire EXCEPT !.due = NoReply, !.answers = NoCommand]
          /\ UNCHANGED <<ret, exc>>
       \/ /\ Return(RetBool(FALSE))
          /\ UNCHANGED <<serial_conn, log, wire>>
    /\ UNCHANGED <<enabled, position, call, entry, calls, track>>
    /\ UNCHANGED <<outstanding, devices>>

\* lines 55-67: read the banner, decode and strip it, look for READY; a
\* readline() that raises SerialException is caught like a failed open.
connect_banner ==
    /\ At("connect", "banner")
    /\ \/ \E line \in RxLines :
            /\ log' = Logged(Event("r", line))
            /\ IF ~Decodable(line)
               THEN Raise("UnicodeDecodeError")
               ELSE Return(RetBool(BannerReady(Strip(line))))
       \/ /\ Return(RetBool(FALSE))
          /\ log' = log
    /\ UNCHANGED <<serial_conn, enabled, position, call, entry, calls, track>>
    /\ UNCHANGED <<outstanding, wire, devices>>

(***************************************************************************)
(* disconnect (lines 69-74)                                                *)
(***************************************************************************)
\* A faulty test of line 71: is_open is not looked at.
HasSerial == serial_conn # "None"

\* line 71: self.serial_conn and self.serial_conn.is_open
IsOpen == serial_conn = "open"

\* A faulty disconnect: it closes without the disable() of line 72.
disconnect_skip_disable ==
    /\ At("disconnect", "start")
    /\ IF IsOpen
       THEN stack' = Goto("close") /\ UNCHANGED <<ret, exc>>
       ELSE Return(RetNone)
    /\ UNCHANGED <<serial_conn, enabled, position, call, entry, log, calls, track>>
    /\ UNCHANGED <<outstanding, wire, devices>>

\* lines 71-72: an open connection is disabled first, anything else is left alone.
disconnect_check ==
    /\ At("disconnect", "start")
    /\ IF IsOpen
       THEN stack' = CallFrom("close", Frame("disable", <<>>)) /\ UNCHANGED <<ret, exc>>
       ELSE Return(RetNone)
    /\ UNCHANGED <<serial_conn, enabled, position, call, entry, log, calls, track>>
    /\ UNCHANGED <<outstanding, wire, devices>>

\* lines 73-74: close the port.
disconnect_close ==
    /\ At("disconnect", "close")
    /\ serial_conn' = "closed"
    /\ log' = Logged(Event("close", <<>>))
    /\ Return(RetNone)
    /\ wire' = [wire EXCEPT !.due = NoReply]
    /\ UNCHANGED <<enabled, position, call, entry, calls, track>>
    /\ UNCHANGED <<outstanding, devices>>

(***************************************************************************)
(* _send_command (lines 76-85); the frame's v is the command.              *)
(***************************************************************************)
\* line 78: not self.serial_conn or not self.serial_conn.is_open
NotConnected == serial_conn # "open"

\* A faulty _send_command: it writes and does not wait for the reply.
send_command_no_wait ==
    /\ At("_send_command", "start")
    /\ IF NotConnected
       THEN Raise("ConnectionError") /\ log' = log /\ outstanding' = outstanding
       ELSE /\ log' = Logged(Event("w", Top.v \o <<"\n">>))
            /\ outstanding' = outstanding + 1
            /\ Return(RetStr(OK))
    /\ UNCHANGED <<serial_conn, enabled, position, call, entry, calls, track>>
    /\ UNCHANGED <<wire, devices>>

\* lines 78-82: refuse without a connection, else write command + '\n';
\* the write may fail (the port has gone): pyserial raises SerialException,
\* and no command has then gone out.
send_command_write ==
    /\ At("_send_command", "start")
    /\ \/ /\ IF NotConnected
             THEN Raise("ConnectionError") /\ log' = log /\ outstanding' = outstanding
             ELSE /\ log' = Logged(Event("w", Top.v \o <<"\n">>))
                  /\ outstanding' = outstanding + 1
                  /\ stack' = Goto("read")
                  /\ UNCHANGED <<ret, exc>>
          /\ track' = track
       \/ /\ ~NotConnected
          /\ log' = Logged(Event("w", Top.v \o <<"\n">>))
          /\ Raise("SerialException")
          /\ track' = NoTrack
          /\ outstanding' = outstanding
    /\ UNCHANGED <<serial_conn, enabled, position, call, entry, calls>>
    /\ UNCHANGED <<wire, devices>>

\* lines 83-85: readline().decode('ascii').strip(); readline() too may
\* raise SerialException.  Either way the wait for the reply is over.
\* Nothing discards what the port holds unread (no reset_input_buffer()).
send_command_read ==
    /\ At("_send_command", "read")
    /\ \/ \E line \in RxLines :
            /\ Readable(line)
            /\ wire' \in Received(Top.v, line)
            /\ log' = Logged(Event("r", line))
            /\ IF ~Decodable(line)
               THEN Raise("UnicodeDecodeError")
               ELSE Return(RetStr(Strip(line)))
            /\ track' = IF line = OkLine THEN track ELSE NoTrack
       \/ /\ log' = log
          /\ wire' = wire
          /\ Raise("SerialException")
          /\ track' = NoTrack
    /\ outstanding' = outstanding - 1
    /\ UNCHANGED <<serial_conn, enabled, position, call, entry, calls>>
    /\ UNCHANGED devices

(***************************************************************************)
(* enable, disable, home, emergency_stop, set_limits: one command each.    *)
(***************************************************************************)
\* The method on top sends `command` and goes on at "reply".
Sends(m, command) ==
    /\ At(m, "start")
    /\ stack' = CallFrom("reply", Frame("_send_command", command))
    /\ UNCHANGED <<serial_conn, enabled, position, ret, exc, call, entry, log, calls, track>>
    /\ UNCHANGED <<outstanding, wire, devices>>

\* response == "OK"
IsOK(response) == response = OK

\* line 89
enable_send == Sends("enable", ENABLE)

\* lines 90-93
enable_reply ==
    /\ At("enable", "reply")
    /\ enabled' = IF IsOK(ret.s) THEN TRUE ELSE enabled
    /\ Return(RetBool(IsOK(ret.s)))
    /\ UNCHANGED <<serial_conn, position, call, entry, log, calls, track>>
    /\ UNCHANGED <<outstanding, wire, devices>>

\* line 97
disable_send == Sends("disable", DISABLE)

\* lines 98-101
disable_reply ==
    /\ At("disable", "reply")
    /\ enabled' = IF IsOK(ret.s) THEN FALSE ELSE enabled
    /\ Return(RetBool(IsOK(ret.s)))
    /\ UNCHANGED <<serial_conn, position, call, entry, log, calls, track>>
    /\ UNCHANGED <<outstanding, wire, devices>>

\* line 150
home_send == Sends("home", HOME)

\* A faulty home: the cached position is reset whatever the reply.
home_reply_always ==
    /\ At("home", "reply")
    /\ position' = Position(0, 0)
    /\ Return(RetBool(IsOK(ret.s)))
    /\ UNCHANGED <<serial_conn, enabled, call, entry, log, calls, track>>
    /\ UNCHANGED <<outstanding, wire, devices>>

\* lines 151-154
home_reply ==
    /\ At("home", "reply")
    /\ position' = IF IsOK(ret.s) THEN Position(0, 0) ELSE position
    /\ Return(RetBool(IsOK(ret.s)))
    /\ UNCHANGED <<serial_conn, enabled, call, entry, log, calls, track>>
    /\ UNCHANGED <<outstanding, wire, devices>>

\* line 223
emergency_stop_send == Sends("emergency_stop", STOP)

\* line 224
emergency_stop_reply ==
    /\ At("emergency_stop", "reply")
    /\ Return(RetBool(IsOK(ret.s)))
    /\ UNCHANGED <<serial_conn, enabled, position, call, entry, log, calls, track>>
    /\ UNCHANGED <<outstanding, wire, devices>>

\* line 228
set_limits_send ==
    /\ At("set_limits", "start")
    /\ Sends("set_limits", SetLimitsCmd(Top.v[1], Top.v[2], Top.v[3], Top.v[4]))

\* line 229
set_limits_reply ==
    /\ At("set_limits", "reply")
    /\ Return(RetBool(IsOK(ret.s)))
    /\ UNCHANGED <<serial_conn, enabled, position, call, entry, log, calls, track>>
    /\ UNCHANGED <<outstanding, wire, devices>>

\* The controller keeps no limits: __init__ (lines 35-42) creates no such
\* attribute and set_limits (lines 226-229) assigns none.  What the session
\* has stored of the limits it was given is nothing.
limits == <<>>

(***************************************************************************)
(* get_position (lines 103-112)                                            *)
(***************************************************************************)
\* parts[i].split('=')[1], 0-based i as in the code: what it raises, if anything.
FieldError(parts, i) ==
    IF Len(parts) < i + 1 THEN "IndexError"
    ELSE IF Len(SplitEq(parts[i + 1])) < 2 THEN "IndexError"
    ELSE ""

Field(parts, i) == SplitEq(parts[i + 1])[2]

\* int(parts[i].split('=')[1])
IntFieldError(parts, i) ==
    IF FieldError(parts, i) # "" THEN FieldError(parts, i)
    ELSE IF ~IsInt(Field(parts, i)) THEN "ValueError"
    ELSE ""

\* line 106
IsPosReply(response) == StartsWith(response, POS_PREFIX)

\* lines 108-110: x first, then y.
PosParseError(response) ==
    IF IntFieldError(Split(response), 1) # ""
    THEN IntFieldError(Split(response), 1)
    ELSE IntFieldError(Split(response), 2)

\* A faulty parse: X and Y taken from each other's token.
PosParseSwapped(response) ==
    Position(ParseInt(Field(Split(response), 2)), ParseInt(Field(Split(response), 1)))

\* lines 109-111: Position(x, y) of a reply that parses
PosParse(response) ==
    Position(ParseInt(Field(Split(response), 1)), ParseInt(Field(Split(response), 2)))

\* line 105
get_position_send == Sends("get_position", POSITION)

\* lines 106-112
\* A faulty get_position: it returns the parsed position and does not store it.
get_position_reply_no_store ==
    /\ At("get_position", "reply")
    /\ IF ~IsPosReply(ret.s)
       THEN Return(RetPos(position))
       ELSE IF PosParseError(ret.s) # ""
            THEN Raise(PosParseError(ret.s))
            ELSE Return(RetPos(PosParse(ret.s)))
    /\ UNCHANGED <<serial_conn, enabled, position, call, entry, log, calls, track>>
    /\ UNCHANGED <<outstanding, wire, devices>>

\* lines 105-112
get_position_reply ==
    /\ At("get_position", "reply")
    /\ IF ~IsPosReply(ret.s)
       THEN Return(RetPos(position)) /\ position' = position
       ELSE IF PosParseError(ret.s) # ""
            THEN Raise(PosParseError(ret.s)) /\ position' = position
            ELSE /\ position' = PosParse(ret.s)
                 /\ Return(RetPos(PosParse(ret.s)))
    /\ UNCHANGED <<serial_conn, enabled, call, entry, log, calls, track>>
    /\ UNCHANGED <<outstanding, wire, devices>>

(***************************************************************************)
(* get_status (lines 192-203), get_safety_status (lines 205-219)           *)
(***************************************************************************)
\* line 195
IsStatusReply(response) == StartsWith(response, STATUS_PREFIX)

\* line 208
IsSafetyReply(response) == StartsWith(response, SAFETY_PREFIX)

\* parts[i].split('=')[1] == '1'
Flag(parts, i) == Field(parts, i) = <<"1">>

\* The first of the errors e[1], e[2], ... that is one ("" if none).
RECURSIVE FirstError(_)
FirstError(e) ==
    IF e = <<>> THEN "" ELSE IF Head(e) # "" THEN Head(e) ELSE FirstError(Tail(e))

\* lines 198-201: the dict's values are computed in this order.
StatusParseError(response) ==
    FirstError(<<FieldError(Split(response), 1), FieldError(Split(response), 2),
                 IntFieldError(Split(response), 3), IntFieldError(Split(response), 4)>>)

\* lines 197-202
StatusParse(response) ==
    [enabled |-> Flag(Split(response), 1),
     moving |-> Flag(Split(response), 2),
     x_pos |-> ParseInt(Field(Split(response), 3)),
     y_pos |-> ParseInt(Field(Split(response), 4))]

\* line 203
DefaultStatus == [enabled |-> FALSE, moving |-> FALSE, x_pos |-> 0, y_pos |-> 0]

\* lines 211-216
SafetyParseError(response) ==
    FirstError(<<FieldError(Split(response), 1), FieldError(Split(response), 2),
                 FieldError(Split(response), 3), FieldError(Split(response), 4),
                 FieldError(Split(response), 5), FieldError(Split(response), 6)>>)

\* lines 210-217: emergency_stop, x_limit_min, x_limit_max, y_limit_min,
\* y_limit_max, current_overload
SafetyParse(response) == [i \in 1..6 |-> Flag(Split(response), i)]

\* lines 218-219
DefaultSafety == [i \in 1..6 |-> FALSE]

\* line 194
get_status_send == Sends("get_status", STATUS_PREFIX)

\* lines 195-203
get_status_reply ==
    /\ At("get_status", "reply")
    /\ IF ~IsStatusReply(ret.s)
       THEN Return(RetStatus(DefaultStatus))
       ELSE IF StatusParseError(ret.s) # ""
            THEN Raise(StatusParseError(ret.s))
            ELSE Return(RetStatus(StatusParse(ret.s)))
    /\ UNCHANGED <<serial_conn, enabled, position, call, entry, log, calls, track>>
    /\ UNCHANGED <<outstanding, wire, devices>>

\* line 207
get_safety_status_send == Sends("get_safety_status", SAFETY_PREFIX)

\* lines 208-219
get_safety_status_reply ==
    /\ At("get_safety_status", "reply")
    /\ IF ~IsSafetyReply(ret.s)
       THEN Return(RetSafety(DefaultSafety))
       ELSE IF SafetyParseError(ret.s) # ""
            THEN Raise(SafetyParseError(ret.s))
            ELSE Return(RetSafety(SafetyParse(ret.s)))
    /\ UNCHANGED <<serial_conn, enabled, position, call, entry, log, calls, track>>
    /\ UNCHANGED <<outstanding, wire, devices>>

(***************************************************************************)
(* move_relative (lines 122-146); the frame's v is <<x_steps, y_steps>>.   *)
(***************************************************************************)
\* A faulty update: line 144 is missing.
MovedXOnly(pos, x_steps, y_steps) == Position(pos.x + x_steps, pos.y)

\* lines 143-144
Moved(pos, x_steps, y_steps) == Position(pos.x + x_steps, pos.y + y_steps)

\* lines 136-146: the Y axis, then the position update.
MoveYThenUpdate ==
    IF Top.v[2] # 0
    THEN /\ stack' = CallFrom("y_reply", Frame("_send_command", MoveCmd("Y", Top.v[2])))
         /\ UNCHANGED <<position, ret, exc>>
    ELSE /\ position' = Moved(position, Top.v[1], Top.v[2])
         /\ Return(RetBool(TRUE))

\* A faulty start: MOVE X is sent for a zero delta too.
move_relative_start_always_x ==
    /\ At("move_relative", "start")
    /\ IF ~enabled
       THEN Return(RetBool(FALSE)) /\ position' = position
       ELSE /\ stack' = CallFrom("x_reply",
                                 Frame("_send_command", MoveCmd("X", Top.v[1])))
            /\ UNCHANGED <<position, ret, exc>>
    /\ UNCHANGED <<serial_conn, enabled, call, entry, log, calls, track>>
    /\ UNCHANGED <<outstanding, wire, devices>>

\* lines 124-130
move_relative_start ==
    /\ At("move_relative", "start")
    /\ IF ~enabled
       THEN Return(RetBool(FALSE)) /\ position' = position
       ELSE IF Top.v[1] # 0
            THEN /\ stack' = CallFrom("x_reply",
                                      Frame("_send_command", MoveCmd("X", Top.v[1])))
                 /\ UNCHANGED <<position, ret, exc>>
            ELSE MoveYThenUpdate
    /\ UNCHANGED <<serial_conn, enabled, call, entry, log, calls, track>>
    /\ UNCHANGED <<outstanding, wire, devices>>

\* lines 131-133, then on to the Y axis
move_relative_x_reply ==
    /\ At("move_relative", "x_reply")
    /\ IF ~IsOK(ret.s)
       THEN Return(RetBool(FALSE)) /\ position' = position
       ELSE MoveYThenUpdate
    /\ UNCHANGED <<serial_conn, enabled, call, entry, log, calls, track>>
    /\ UNCHANGED <<outstanding, wire, devices>>

\* A faulty Y step: when MOVE Y fails, the X part of the move is cached.
move_relative_y_reply_keeps_x ==
    /\ At("move_relative", "y_reply")
    /\ IF ~IsOK(ret.s)
       THEN Return(RetBool(FALSE)) /\ position' = Moved(position, Top.v[1], 0)
       ELSE /\ position' = Moved(position, Top.v[1], Top.v[2])
            /\ Return(RetBool(TRUE))
    /\ UNCHANGED <<serial_conn, enabled, call, entry, log, calls, track>>
    /\ UNCHANGED <<outstanding, wire, devices>>

\* lines 138-146
move_relative_y_reply ==
    /\ At("move_relative", "y_reply")
    /\ IF ~IsOK(ret.s)
       THEN Return(RetBool(FALSE)) /\ position' = position
       ELSE /\ position' = Moved(position, Top.v[1], Top.v[2])
            /\ Return(RetBool(TRUE))
    /\ UNCHANGED <<serial_conn, enabled, call, entry, log, calls, track>>
    /\ UNCHANGED <<outstanding, wire, devices>>

(***************************************************************************)
(* move_to (lines 114-120); the frame's v is <<x, y>>.                     *)
(***************************************************************************)
\* Faulty deltas: the subtraction the wrong way round.
StepsReversed(target, current) == <<current.x - target[1], current.y - target[2]>>

\* lines 117-118: x - current.x, y - current.y
Steps(target, current) == <<target[1] - current.x, target[2] - current.y>>

\* line 116: current = self.get_position()
move_to_query ==
    /\ At("move_to", "start")
    /\ stack' = CallFrom("steps", Frame("get_position", <<>>))
    /\ UNCHANGED <<serial_conn, enabled, position, ret, exc, call, entry, log, calls, track>>
    /\ UNCHANGED <<outstanding, wire, devices>>

\* lines 117-120: the deltas from what get_position returned, to move_relative
move_to_delegate ==
    /\ At("move_to", "steps")
    /\ stack' = CallFrom("return", Frame("move_relative", Steps(Top.v, ret.p)))
    /\ UNCHANGED <<serial_conn, enabled, position, ret, exc, call, entry, log, calls, track>>
    /\ UNCHANGED <<outstanding, wire, devices>>

\* line 120: return what move_relative returned
move_to_return ==
    /\ At("move_to", "return")
    /\ Return(ret)
    /\ UNCHANGED <<serial_conn, enabled, position, call, entry, log, calls, track>>
    /\ UNCHANGED <<outstanding, wire, devices>>

(***************************************************************************)
(* raster_scan (lines 156-190); the frame's v is                           *)
(* <<x_start, y_start, x_end, y_end, x_step, y_step, x_idx, y_idx>>.       *)
(***************************************************************************)
\* Python's a // b (floor division), b # 0.
FloorDiv(a, b) == IF b > 0 THEN a \div b ELSE (-a) \div (-b)

\* line 165
XPoints(v) == FloorDiv(v[3] - v[1], v[5])

\* line 166
YPoints(v) == FloorDiv(v[4] - v[2], v[6])

\* lines 174-175
ScanPoint(v) == <<v[1] + v[7] * v[5], v[2] + v[8] * v[6]>>

\* The loops of lines 171-172: is there a point after (x_idx, y_idx), and which.
ScanMore(v) == v[7] < XPoints(v) \/ v[8] < YPoints(v)

\* A faulty loop nest: X outside, Y inside.
ScanAdvanceColumnMajor(v) ==
    IF v[8] < YPoints(v)
    THEN [v EXCEPT ![8] = v[8] + 1]
    ELSE [v EXCEPT ![8] = 0, ![7] = v[7] + 1]

\* lines 171-172: the next (x_idx, y_idx), Y outside, X inside
ScanAdvance(v) ==
    IF v[7] < XPoints(v)
    THEN [v EXCEPT ![7] = v[7] + 1]
    ELSE [v EXCEPT ![7] = 0, ![8] = v[8] + 1]

\* line 178: move_to(current_x, current_y) for the point of v
ScanMoveTo(v) ==
    stack' = Append([stack EXCEPT ![Len(stack)].pc = "visit", ![Len(stack)].v = v],
                    Frame("move_to", ScanPoint(v)))

\* lines 161: move to the start position
raster_scan_start ==
    /\ At("raster_scan", "start")
    /\ stack' = CallFrom("plan", Frame("move_to", <<Top.v[1], Top.v[2]>>))
    /\ UNCHANGED <<serial_conn, enabled, position, ret, exc, call, entry, log, calls, track>>
    /\ UNCHANGED <<outstanding, wire, devices>>

\* lines 161-178: give up if that move failed; else size the grid and
\* enter the loops: move to the first point, if the ranges hold one.
raster_scan_plan ==
    /\ At("raster_scan", "plan")
    /\ IF ~ret.b
       THEN Return(RetBool(FALSE))
       ELSE IF Top.v[5] = 0 \/ Top.v[6] = 0
            THEN Raise("ZeroDivisionError")
            ELSE IF XPoints(Top.v) + 1 <= 0 \/ YPoints(Top.v) + 1 <= 0
                 THEN Return(RetBool(TRUE))
                 ELSE ScanMoveTo(Top.v) /\ UNCHANGED <<ret, exc>>
    /\ UNCHANGED <<serial_conn, enabled, position, call, entry, log, calls, track>>
    /\ UNCHANGED <<outstanding, wire, devices>>

\* A faulty scan: a failed move skips the point and the scan goes on.
ScanFailedSkips ==
    IF ScanMore(Top.v)
    THEN ScanMoveTo(ScanAdvance(Top.v)) /\ UNCHANGED <<ret, exc>>
    ELSE Return(RetBool(FALSE))

\* lines 178-180: the move to the point failed
ScanFailed == Return(RetBool(FALSE))

\* lines 178-190: after the move to a point: abort if it failed, else call
\* back, and move to the next point or finish.
raster_scan_visit ==
    /\ At("raster_scan", "visit")
    /\ IF ~ret.b
       THEN ScanFailed /\ calls' = calls
       ELSE /\ calls' = Append(calls, [args |-> ScanPoint(Top.v) \o <<Top.v[7], Top.v[8]>>,
                                       at |-> position])
            /\ IF ScanMore(Top.v)
               THEN ScanMoveTo(ScanAdvance(Top.v)) /\ UNCHANGED <<ret, exc>>
               ELSE Return(RetBool(TRUE))
    /\ UNCHANGED <<serial_conn, enabled, position, call, entry, log, track>>
    /\ UNCHANGED <<outstanding, wire, devices>>

(***************************************************************************)
(* The camera and the template device (hardware/DMK37/scripts,             *)
(* hardware/device-template/scripts): a controller object each, in front   *)
(* of a platform driver.  The driver is the environment: a call of it      *)
(* returns True or False, or raises.  A controller method is one step.     *)
(***************************************************************************)
\* dict.get(key, default)
Get(table, key, default) == IF key \in DOMAIN table THEN table[key] ELSE default

\* {}
Empty == [k \in {} |-> 0]

\* capabilities.py lines 14-38: with no device-config.json, or no entry for
\* the platform in it, get_capabilities() is {}.
NoCapabilities == [present |-> FALSE, features |-> Empty, limits |-> Empty]

CameraFeatures == {"exposure", "gain", "roi", "hardwareTrigger", "softwareTrigger"}

\* An entry that supports everything and states the sensor's limits.
CameraFull ==
    [present |-> TRUE,
     features |-> [f \in CameraFeatures |-> TRUE],
     limits |-> [k \in {"minExposure", "maxExposure", "minGain", "maxGain",
                        "maxWidth", "maxHeight"} |->
                    CASE k = "minExposure" -> 10
                      [] k = "maxExposure" -> 5000
                      [] k = "minGain" -> 0
                      [] k = "maxGain" -> 50
                      [] k = "maxWidth" -> 1920
                      [] k = "maxHeight" -> 1080]]

\* A UVC entry: ROI and the triggers are marked unsupported, no limits given.
CameraUVC ==
    [present |-> TRUE,
     features |-> [f \in CameraFeatures |-> f \in {"exposure", "gain"}],
     limits |-> Empty]

\* An entry that lists the triggers only.
CameraTriggersOnly ==
    [present |-> TRUE,
     features |-> [f \in {"hardwareTrigger", "softwareTrigger"} |-> TRUE],
     limits |-> Empty]

CameraTables == {NoCapabilities, CameraFull, CameraUVC, CameraTriggersOnly}

TemplateFull ==
    [present |-> TRUE,
     features |-> [f \in {"basicControl", "advancedControl"} |-> TRUE],
     limits |-> Empty]

\* Advanced control is marked unsupported.
TemplateBasic ==
    [present |-> TRUE,
     features |-> [f \in {"basicControl", "advancedControl"} |-> f = "basicControl"],
     limits |-> Empty]

TemplateTables == {NoCapabilities, TemplateFull, TemplateBasic}

\* A faulty lookup: a feature the table does not list counts as supported.
is_feature_supported_by_default(caps, feature) == Get(caps.features, feature, TRUE)

\* capabilities.py lines 128-132 (DMK37), 125-129 (template)
is_feature_supported(caps, feature) == Get(caps.features, feature, FALSE)

\* dmk37_controller.py lines 33-49
CameraNew ==
    [connected |-> FALSE, acquiring |-> FALSE, exposure |-> 1000, gain |-> 0,
     roi |-> <<0, 0, 1920, 1080>>, trigger_mode |-> FALSE, trigger_source |-> "Software"]

\* template_controller.py lines 33-46
TemplateNew == [connected |-> FALSE, enabled |-> FALSE, mode |-> "normal", timeout |-> 5]

\* The modules at rest, as the stage controller's runs leave them.
DevicesInit ==
    /\ camera = CameraNew
    /\ template = TemplateNew
    /\ capabilities = [camera |-> CameraFull, template |-> TemplateFull]
    /\ driver_calls = <<>>

\* What a driver raises: the module's base error, or UnsupportedFeatureError
\* (dmk37_controller.py lines 611, 919; template_controller.py line 399).
CameraDriverErrors == {"DMK37Error", "UnsupportedFeatureError"}

TemplateDriverErrors == {"DeviceError", "UnsupportedFeatureError"}

Outcomes(errors) == {"True", "False"} \cup errors

DriverCall(m, args) == [m |-> m, args |-> args]

\* The caller calls method op of a controller; the stage controller is idle.
DeviceOp(op, args) ==
    /\ stack = <<>>
    /\ call' = [op |-> op, args |-> args]
    /\ UNCHANGED <<serial_conn, enabled, position, stack, entry, log, calls, track>>
    /\ UNCHANGED <<outstanding, wire, capabilities>>

\* The two controllers share nothing.  The caller of this model works with
\* one of them at a time: with the camera while the template controller is
\* as new, and the other way round.
TemplateUnused == template = TemplateNew /\ template' = template

CameraUnused == camera = CameraNew /\ camera' = camera

\* return value
Gives(value) == ret' = value /\ exc' = ""

\* raise e
Throws(e) == ret' = RetNone /\ exc' = e

\* A dict returned by a driver.
RetDict == [RetNone EXCEPT !.t = "dict"]

\* A faulty guard: the method goes on whether connected or not.
ConnectedOrNot(controller) == TRUE

\* `if not self.connected: raise ...` passes
Connected(controller) == controller.connected

\* connect of either controller (dmk37_controller.py lines 84-98,
\* template_controller.py lines 78-92): connected is set as soon as the
\* driver says so; the print of line 90 (84) then needs the capabilities'
\* 'os' key, and whatever is raised in the try block comes out as the
\* module's ConnectionError.
ConnectVia(op, controller, caps, errors) ==
    \E outcome \in Outcomes(errors) :
        /\ DeviceOp(op, <<>>)
        /\ driver_calls' = <<DriverCall("connect", <<>>)>>
        /\ IF outcome \in errors
           THEN Throws("ConnectionError") /\ controller' = controller
           ELSE IF outcome = "False"
           THEN Gives(RetBool(FALSE)) /\ controller' = controller
           ELSE /\ controller' = [controller EXCEPT !.connected = TRUE]
                /\ IF caps.present
                   THEN Gives(RetBool(TRUE))
                   ELSE Throws("ConnectionError")

\* A setter of either controller (the shape of dmk37_controller.py lines
\* 186-203): not connected raises the base error; a feature that is not
\* supported raises UnsupportedFeatureError (feature "" when the method has
\* no such guard); an argument that is not valid raises the base error; then
\* the driver is called, and the value is cached if it returned True.
SetVia(op, args, controller, caps, base, errors, feature, valid, field, value) ==
    \E outcome \in Outcomes(errors) :
        /\ DeviceOp(op, args)
        /\ IF ~Connected(controller)
           THEN Throws(base) /\ controller' = controller /\ driver_calls' = <<>>
           ELSE IF feature # "" /\ ~is_feature_supported(caps, feature)
           THEN /\ Throws("UnsupportedFeatureError")
                /\ controller' = controller
                /\ driver_calls' = <<>>
           ELSE IF ~valid
           THEN Throws(base) /\ controller' = controller /\ driver_calls' = <<>>
           ELSE /\ driver_calls' = <<DriverCall(field, args)>>
                /\ IF outcome \in errors
                   THEN Throws(outcome) /\ controller' = controller
                   ELSE /\ Gives(RetBool(outcome = "True"))
                        /\ controller' =
                             IF outcome = "True"
                             THEN [controller EXCEPT ![field] = value]
                             ELSE controller

(***************************************************************************)
(* DMK37Controller (dmk37_controller.py)                                   *)
(***************************************************************************)
Exposures == {0, 1000, 5000, 1000001}

Gains == {-1, 0, 50, 101}

Rois == {<<0, 0, 1920, 1080>>, <<0, 0, 640, 480>>, <<0, 0, 1921, 1080>>}

TriggerSources == {"Software", "Line0", "Line2"}

\* lines 84-98
DMK37Controller_connect ==
    /\ ConnectVia("DMK37Controller_connect", camera, capabilities.camera,
                  CameraDriverErrors \cup {"ConnectionError"})
    /\ TemplateUnused

\* lines 162-166, as part of disconnect and on its own
StopAcquisition(outcome) ==
    IF outcome = "True" THEN [camera EXCEPT !.acquiring = FALSE] ELSE camera

\* lines 107-114: stop a running acquisition, then the driver's disconnect;
\* neither call is inside a try block.
DMK37Controller_disconnect ==
    \E stopped \in Outcomes(CameraDriverErrors), outcome \in Outcomes(CameraDriverErrors) :
        /\ DeviceOp("DMK37Controller_disconnect", <<>>)
        /\ TemplateUnused
        /\ IF camera.acquiring /\ stopped \in CameraDriverErrors
           THEN /\ driver_calls' = <<DriverCall("stop_acquisition", <<>>)>>
                /\ Throws(stopped)
                /\ camera' = camera
           ELSE LET cam == IF camera.acquiring THEN StopAcquisition(stopped) ELSE camera
                    asked ==
                        (IF camera.acquiring
                         THEN <<DriverCall("stop_acquisition", <<>>)>> ELSE <<>>)
                            \o <<DriverCall("disconnect", <<>>)>>
                IN  /\ driver_calls' = asked
                    /\ IF outcome \in CameraDriverErrors
                       THEN Throws(outcome) /\ camera' = cam
                       ELSE /\ Gives(RetBool(outcome = "True"))
                            /\ camera' = IF outcome = "True"
                                         THEN [cam EXCEPT !.connected = FALSE]
                                         ELSE cam

\* lines 135-147: what start_acquisition asks of the driver, in order.
AcquisitionCalls ==
    <<DriverCall("set_exposure", <<camera.exposure>>),
      DriverCall("set_gain", <<camera.gain>>)>>
        \o (IF is_feature_supported(capabilities.camera, "roi")
            THEN <<DriverCall("set_roi", camera.roi)>> ELSE <<>>)
        \o (IF is_feature_supported(capabilities.camera, "hardwareTrigger")
            THEN <<DriverCall("set_trigger_mode", <<camera.trigger_mode>>)>>
                    \o (IF camera.trigger_mode
                        THEN <<DriverCall("set_trigger_source", <<camera.trigger_source>>)>>
                        ELSE <<>>)
            ELSE <<>>)
        \o <<DriverCall("start_acquisition", <<>>)>>

\* lines 130-153: any exception of a driver call comes out as DMK37Error.
DMK37Controller_start_acquisition ==
    /\ DeviceOp("DMK37Controller_start_acquisition", <<>>)
    /\ TemplateUnused
    /\ IF ~Connected(camera)
       THEN Throws("DMK37Error") /\ camera' = camera /\ driver_calls' = <<>>
       ELSE \/ \E n \in 1..Len(AcquisitionCalls) :
                /\ driver_calls' = SubSeq(AcquisitionCalls, 1, n)
                /\ Throws("DMK37Error")
                /\ camera' = camera
            \/ \E success \in BOOLEAN :
                /\ driver_calls' = AcquisitionCalls
                /\ Gives(RetBool(success))
                /\ camera' = IF success THEN [camera EXCEPT !.acquiring = TRUE] ELSE camera

\* lines 162-166: no look at connected.
DMK37Controller_stop_acquisition ==
    \E outcome \in Outcomes(CameraDriverErrors) :
        /\ DeviceOp("DMK37Controller_stop_acquisition", <<>>)
        /\ TemplateUnused
        /\ driver_calls' = <<DriverCall("stop_acquisition", <<>>)>>
        /\ IF outcome \in CameraDriverErrors
           THEN Throws(outcome) /\ camera' = camera
           ELSE Gives(RetBool(outcome = "True")) /\ camera' = StopAcquisition(outcome)

\* lines 186-203
DMK37Controller_set_exposure ==
    \E exposure_us \in Exposures :
        /\ SetVia("DMK37Controller_set_exposure", <<exposure_us>>, camera,
                  capabilities.camera, "DMK37Error", CameraDriverErrors, "exposure",
                  /\ exposure_us >= Get(capabilities.camera.limits, "minExposure", 1)
                  /\ exposure_us <= Get(capabilities.camera.limits, "maxExposure", 1000000),
                  "exposure", exposure_us)
        /\ TemplateUnused

\* A faulty set_gain: the limits are not looked at.
DMK37Controller_set_gain_unchecked ==
    \E gain_db \in Gains :
        /\ SetVia("DMK37Controller_set_gain", <<gain_db>>, camera,
                  capabilities.camera, "DMK37Error", CameraDriverErrors, "gain",
                  TRUE, "gain", gain_db)
        /\ TemplateUnused

\* lines 219-236
DMK37Controller_set_gain ==
    \E gain_db \in Gains :
        /\ SetVia("DMK37Controller_set_gain", <<gain_db>>, camera,
                  capabilities.camera, "DMK37Error", CameraDriverErrors, "gain",
                  /\ gain_db >= Get(capabilities.camera.limits, "minGain", 0)
                  /\ gain_db <= Get(capabilities.camera.limits, "maxGain", 100),
                  "gain", gain_db)
        /\ TemplateUnused

\* lines 255-272: x, y, width, height; only width and height are checked,
\* and only from above.
DMK37Controller_set_roi ==
    \E r \in Rois :
        /\ SetVia("DMK37Controller_set_roi", r, camera,
                  capabilities.camera, "DMK37Error", CameraDriverErrors, "roi",
                  /\ r[3] <= Get(capabilities.camera.limits, "maxWidth", 1920)
                  /\ r[4] <= Get(capabilities.camera.limits, "maxHeight", 1080),
                  "roi", r)
        /\ TemplateUnused

\* lines 288-298
DMK37Controller_set_trigger_mode ==
    \E on \in BOOLEAN :
        /\ SetVia("DMK37Controller_set_trigger_mode", <<on>>, camera,
                  capabilities.camera, "DMK37Error", CameraDriverErrors,
                  "hardwareTrigger", TRUE, "trigger_mode", on)
        /\ TemplateUnused

\* lines 314-327
DMK37Controller_set_trigger_source ==
    \E source \in TriggerSources :
        /\ SetVia("DMK37Controller_set_trigger_source", <<source>>, camera,
                  capabilities.camera, "DMK37Error", CameraDriverErrors,
                  "hardwareTrigger", source \in {"Software", "Line0", "Line1"},
                  "trigger_source", source)
        /\ TemplateUnused

\* lines 340-349: nothing is cached.
DMK37Controller_software_trigger ==
    \E outcome \in Outcomes(CameraDriverErrors) :
        /\ DeviceOp("DMK37Controller_software_trigger", <<>>)
        /\ camera' = camera
        /\ TemplateUnused
        /\ IF ~Connected(camera)
           THEN Throws("DMK37Error") /\ driver_calls' = <<>>
           ELSE IF ~is_feature_supported(capabilities.camera, "softwareTrigger")
           THEN Throws("UnsupportedFeatureError") /\ driver_calls' = <<>>
           ELSE /\ driver_calls' = <<DriverCall("software_trigger", <<>>)>>
                /\ IF outcome \in CameraDriverErrors
                   THEN Throws(outcome)
                   ELSE Gives(RetBool(outcome = "True"))

(***************************************************************************)
(* TemplateController (template_controller.py)                             *)
(***************************************************************************)
Modes == {"normal", "low_power", "turbo"}

Timeouts == {1, 5}

\* lines 78-92
TemplateController_connect ==
    /\ ConnectVia("TemplateController_connect", template, capabilities.template,
                  TemplateDriverErrors \cup {"ConnectionError"})
    /\ CameraUnused

\* lines 101-105
TemplateController_disconnect ==
    \E outcome \in Outcomes(TemplateDriverErrors) :
        /\ DeviceOp("TemplateController_disconnect", <<>>)
        /\ CameraUnused
        /\ driver_calls' = <<DriverCall("disconnect", <<>>)>>
        /\ IF outcome \in TemplateDriverErrors
           THEN Throws(outcome) /\ template' = template
           ELSE /\ Gives(RetBool(outcome = "True"))
                /\ template' = IF outcome = "True"
                               THEN [template EXCEPT !.connected = FALSE]
                               ELSE template

\* initialize (lines 121-130), reset (142-151), get_status (163-170): the
\* connected guard, then the driver's method of the same name in a try
\* block that turns any exception into DeviceError.
TemplateForward(op, m, values) ==
    \E outcome \in values \cup {"error"} :
        /\ DeviceOp(op, <<>>)
        /\ template' = template
        /\ CameraUnused
        /\ IF ~Connected(template)
           THEN Throws("DeviceError") /\ driver_calls' = <<>>
           ELSE /\ driver_calls' = <<DriverCall(m, <<>>)>>
                /\ IF outcome = "error"
                   THEN Throws("DeviceError")
                   ELSE IF outcome = "dict"
                        THEN Gives(RetDict)
                        ELSE Gives(RetBool(outcome = "True"))

TemplateController_initialize ==
    TemplateForward("TemplateController_initialize", "initialize", {"True", "False"})

TemplateController_reset ==
    TemplateForward("TemplateController_reset", "reset", {"True", "False"})

TemplateController_get_status ==
    TemplateForward("TemplateController_get_status", "get_status", {"dict"})

\* lines 185-195
TemplateController_set_enabled ==
    \E on \in BOOLEAN :
        /\ SetVia("TemplateController_set_enabled", <<on>>, template,
                  capabilities.template, "DeviceError", TemplateDriverErrors,
                  "basicControl", TRUE, "enabled", on)
        /\ CameraUnused

\* lines 211-224
TemplateController_set_mode ==
    \E mode \in Modes :
        /\ SetVia("TemplateController_set_mode", <<mode>>, template,
                  capabilities.template, "DeviceError", TemplateDriverErrors,
                  "advancedControl", mode \in {"normal", "high_performance", "low_power"},
                  "mode", mode)
        /\ CameraUnused

\* lines 239-246: no capability guards this one.
TemplateController_set_timeout ==
    \E timeout \in Timeouts :
        /\ SetVia("TemplateController_set_timeout", <<timeout>>, template,
                  capabilities.template, "DeviceError", TemplateDriverErrors,
                  "", TRUE, "timeout", timeout)
        /\ CameraUnused

(***************************************************************************)
(* The caller: any public method, with arguments from small sets.          *)
(***************************************************************************)
Deltas == -MaxPos..MaxPos

LimitArgs == {<<-MaxPos, MaxPos, -MaxPos, MaxPos>>, <<0, 12, -3, 0>>}

\* The scans of example.py (line 80) and of the module's own demo, in units
\* of one step: square grids, a grid the step does not divide, one scanned
\* backwards, steps of the wrong sign, and zero steps.
ScanArgs ==
    {<<0, 0, n, n, 1, 1>> : n \in 0..MaxGrid}
        \cup {<<0, 0, 500, 500, 100, 100>>,
              <<0, 0, 3, 1, 2, 1>>,
              <<1, 1, -1, 0, -1, -1>>,
              <<0, 0, -2, -2, 1, 1>>,
              <<0, 0, -3, 1, 1, 1>>,
              <<0, 0, 1, 1, 0, 1>>,
              <<0, 0, 1, 1, 1, 0>>}

call_connect == Invoke("connect", <<>>) /\ track' = NoTrack

call_disconnect == Invoke("disconnect", <<>>) /\ track' = NoTrack

call_enable == Invoke("enable", <<>>) /\ track' = NoTrack

call_disable == Invoke("disable", <<>>) /\ track' = NoTrack

call_home == Invoke("home", <<>>) /\ track' = NoTrack

call_emergency_stop == Invoke("emergency_stop", <<>>) /\ track' = NoTrack

call_get_position == Invoke("get_position", <<>>) /\ track' = NoTrack

call_get_status == Invoke("get_status", <<>>) /\ track' = NoTrack

call_get_safety_status == Invoke("get_safety_status", <<>>) /\ track' = NoTrack

call_set_limits == \E l \in LimitArgs : Invoke("set_limits", l) /\ track' = NoTrack

call_move_to == \E x \in Coord, y \in Coord : Invoke("move_to", <<x, y>>) /\ track' = NoTrack

\* A run of move_relative calls that began at (0,0), connected and enabled,
\* is tracked: track holds the sum of its deltas, this call's included.
call_move_relative ==
    \E dx \in Deltas, dy \in Deltas :
        /\ enabled => (position.x + dx \in Coord /\ position.y + dy \in Coord)
        /\ Invoke("move_relative", <<dx, dy>>)
        /\ track' =
             IF track.on
             THEN [on |-> TRUE, x |-> track.x + dx, y |-> track.y + dy]
             ELSE IF serial_conn = "open" /\ enabled /\ position = Position(0, 0)
                  THEN [on |-> TRUE, x |-> dx, y |-> dy]
                  ELSE NoTrack

\* Scans of one or two points, among the other calls of SpecSeq.
ShortScans == {<<0, 0, 0, 0, 1, 1>>, <<0, 0, 1, 0, 1, 1>>}

call_short_scan ==
    /\ \E a \in ShortScans : Invoke("raster_scan", a \o <<0, 0>>)
    /\ track' = NoTrack

\* One raster scan per behaviour of SpecScan.
call_raster_scan ==
    /\ call.op = "none"
    /\ \E a \in ScanArgs : Invoke("raster_scan", a \o <<0, 0>>)
    /\ track' = NoTrack

Init ==
    /\ serial_conn = "None"
    /\ enabled = FALSE
    /\ position = Position(0, 0)
    /\ stack = <<>>
    /\ ret = RetNone
    /\ exc = ""
    /\ call = [op |-> "none", args |-> <<>>]
    /\ entry = [serial_conn |-> "None", enabled |-> FALSE, position |-> Position(0, 0)]
    /\ outstanding = 0
    /\ wire = NoWire
    /\ DevicesInit
    /\ log = <<>>
    /\ calls = <<>>
    /\ track = NoTrack

Step ==
    \/ send_command_write
    \/ send_command_read
    \/ get_position_send
    \/ get_position_reply
    \/ move_to_query
    \/ move_to_delegate
    \/ move_to_return
    \/ move_relative_start
    \/ move_relative_x_reply
    \/ move_relative_y_reply

Next ==
    \/ call_connect
    \/ call_disconnect
    \/ call_enable
    \/ call_disable
    \/ call_home
    \/ call_emergency_stop
    \/ call_get_position
    \/ call_get_status
    \/ call_get_safety_status
    \/ call_set_limits
    \/ call_move_to
    \/ call_move_relative
    \/ connect_open
    \/ connect_banner
    \/ disconnect_check
    \/ disconnect_close
    \/ enable_send
    \/ enable_reply
    \/ disable_send
    \/ disable_reply
    \/ home_send
    \/ home_reply
    \/ emergency_stop_send
    \/ emergency_stop_reply
    \/ set_limits_send
    \/ set_limits_reply
    \/ get_status_send
    \/ get_status_reply
    \/ get_safety_status_send
    \/ get_safety_status_reply
    \/ Step

Spec == Init /\ [][Next]_vars

\* A controller some earlier calls left connected or closed, about to scan.
InitScan ==
    /\ serial_conn \in {"open", "closed"}
    /\ enabled \in BOOLEAN
    /\ position \in {Position(0, 0), Position(1, -1)}
    /\ stack = <<>>
    /\ ret = RetNone
    /\ exc = ""
    /\ call = [op |-> "none", args |-> <<>>]
    /\ entry = [serial_conn |-> serial_conn, enabled |-> enabled, position |-> position]
    /\ log = <<>>
    /\ calls = <<>>
    /\ track = NoTrack
    /\ outstanding = 0
    /\ wire = NoWire
    /\ DevicesInit

NextScan ==
    \/ call_raster_scan
    \/ raster_scan_start
    \/ raster_scan_plan
    \/ raster_scan_visit
    \/ Step

SpecScan == InitScan /\ [][NextScan]_vars

\* Any sequence of calls of the stage controller, short scans among them.
NextSeq ==
    \/ Next
    \/ call_short_scan
    \/ raster_scan_start
    \/ raster_scan_plan
    \/ raster_scan_visit

SpecSeq == Init /\ [][NextSeq]_vars

\* A new controller on a device that can take longer than the read timeout
\* to reply.
InitLate ==
    /\ serial_conn = "None"
    /\ enabled = FALSE
    /\ position = Position(0, 0)
    /\ stack = <<>>
    /\ ret = RetNone
    /\ exc = ""
    /\ call = [op |-> "none", args |-> <<>>]
    /\ entry = [serial_conn |-> "None", enabled |-> FALSE, position |-> Position(0, 0)]
    /\ log = <<>>
    /\ calls = <<>>
    /\ track = NoTrack
    /\ outstanding = 0
    /\ wire = [NoWire EXCEPT !.slow = TRUE]
    /\ DevicesInit

\* Sequences of connect, enable, home, get_position and move_relative.
NextLate ==
    \/ call_connect
    \/ call_enable
    \/ call_home
    \/ call_get_position
    \/ call_move_relative
    \/ connect_open
    \/ connect_banner
    \/ enable_send
    \/ enable_reply
    \/ home_send
    \/ home_reply
    \/ get_position_send
    \/ get_position_reply
    \/ move_relative_start
    \/ move_relative_x_reply
    \/ move_relative_y_reply
    \/ send_command_write
    \/ send_command_read

SpecLate == InitLate /\ [][NextLate]_vars

\* The two device controllers, new, on a platform whose device-config.json
\* entries are any of the tables above.
InitDevices ==
    /\ serial_conn = "None"
    /\ enabled = FALSE
    /\ position = Position(0, 0)
    /\ stack = <<>>
    /\ ret = RetNone
    /\ exc = ""
    /\ call = [op |-> "none", args |-> <<>>]
    /\ entry = [serial_conn |-> "None", enabled |-> FALSE, position |-> Position(0, 0)]
    /\ log = <<>>
    /\ calls = <<>>
    /\ track = NoTrack
    /\ outstanding = 0
    /\ wire = NoWire
    /\ camera = CameraNew
    /\ template = TemplateNew
    /\ capabilities \in [camera : CameraTables, template : TemplateTables]
    /\ driver_calls = <<>>

NextDevices ==
    \/ DMK37Controller_connect
    \/ DMK37Controller_disconnect
    \/ DMK37Controller_start_acquisition
    \/ DMK37Controller_stop_acquisition
    \/ DMK37Controller_set_exposure
    \/ DMK37Controller_set_gain
    \/ DMK37Controller_set_roi
    \/ DMK37Controller_set_trigger_mode
    \/ DMK37Controller_set_trigger_source
    \/ DMK37Controller_software_trigger
    \/ TemplateController_connect
    \/ TemplateController_disconnect
    \/ TemplateController_initialize
    \/ TemplateController_reset
    \/ TemplateController_get_status
    \/ TemplateController_set_enabled
    \/ TemplateController_set_mode
    \/ TemplateController_set_timeout

SpecDevices == InitDevices /\ [][NextDevices]_vars

(***************************************************************************)
(* Properties.  What they observe: the channel log of the call, the        *)
(* controller's fields before and after, the call's result.                *)
(***************************************************************************)
Wrote(command) == Event("w", command \o <<"\n">>)

IsMoveWrite(ev) == ev.k = "w" /\ StartsWith(ev.d, <<"M", "O", "V", "E", " ">>)

StateUnchanged ==
    /\ serial_conn = entry.serial_conn
    /\ enabled = entry.enabled
    /\ position = entry.position

\* Lines of RxLines that are ASCII text not starting with "POS X=".
NonPosLines ==
    {TimeoutLine, OkLine, ErrLine, ReadyLine, BannerLine,
     StatusLine, StatusBareLine, SafetyLine, SafetyShortLine}

\* Lines of RxLines that are ASCII text without the token READY.
NonReadyLines ==
    {TimeoutLine, OkLine, ErrLine, PosShortLine, PosAlphaLine,
     StatusLine, StatusBareLine, SafetyLine, SafetyShortLine}
        \cup {PosLine(p[1], p[2]) : p \in ReportedPos}

----------------------------------------------------------------------------
\* C1: after every move_relative call of a run of move_relative calls that
\* began at cached position (0,0) on a connected, enabled controller and in
\* which every MOVE was answered OK, the call has returned True and the
\* cached position is (sum of the dx, sum of the dy).
C1_CumulativeSum ==
    (Done /\ call.op = "move_relative" /\ track.on)
        => /\ Returned
           /\ ret = RetBool(TRUE)
           /\ position = Position(track.x, track.y)

\* A run of at least two calls: out to (1,-1) and back to the origin.
C1_Witness ==
    /\ Done
    /\ call.op = "move_relative"
    /\ track.on
    /\ entry.position = Position(1, -1)
    /\ call.args = <<-1, 1>>
    /\ position = Position(0, 0)

----------------------------------------------------------------------------
\* The position get_position hands to move_to, read off the channel log: the
\* reported one when the reply (the log's second event) is a well-formed POS
\* line, the position cached at the call otherwise.
QueriedPos ==
    IF \E p \in ReportedPos : log[2].d = PosLine(p[1], p[2])
    THEN LET p == CHOOSE q \in ReportedPos : log[2].d = PosLine(q[1], q[2])
         IN  Position(p[1], p[2])
    ELSE entry.position

\* C2 as claimed: move_to(x, y) called at cached position p hands
\* (x - p.x, y - p.y) to move_relative, and sends no MOVE when (x, y) = p.
C2_DeltasFromCachedAtCall ==
    call.op = "move_to"
        => /\ At("move_relative", "start")
                => Top.v = <<call.args[1] - entry.position.x,
                             call.args[2] - entry.position.y>>
           /\ call.args = <<entry.position.x, entry.position.y>>
                => \A i \in 1..Len(log) : ~IsMoveWrite(log[i])

\* C2 amended: move_to(x, y) first queries POSITION; with q the position
\* get_position returns (the reply's when it is well formed, the cached one
\* when it does not start with "POS X="), it hands (x - q.x, y - q.y) to
\* move_relative, every MOVE it sends carries the nonzero delta of its axis,
\* and it sends no MOVE when (x, y) = q.
C2_DeltasFromQueried ==
    (call.op = "move_to" /\ Len(log) >= 2)
        => LET dx == call.args[1] - QueriedPos.x
               dy == call.args[2] - QueriedPos.y
           IN  /\ log[1] = Wrote(POSITION)
               /\ At("move_relative", "start") => Top.v = <<dx, dy>>
               /\ \A i \in 1..Len(log) :
                    IsMoveWrite(log[i])
                        => \/ dx # 0 /\ log[i] = Wrote(MoveCmd("X", dx))
                           \/ dy # 0 /\ log[i] = Wrote(MoveCmd("Y", dy))
               /\ (Returned /\ dx = 0 /\ dy = 0)
                    => Len(log) = 2 /\ ret = RetBool(entry.enabled)

\* The device reports (1,-1) while (0,0) is cached: move_to(1,-1) sends no MOVE.
C2_Witness ==
    /\ Returned
    /\ call = [op |-> "move_to", args |-> <<1, -1>>]
    /\ entry.position = Position(0, 0)
    /\ entry.enabled
    /\ log = <<Wrote(POSITION), Event("r", PosLine(1, -1))>>
    /\ ret = RetBool(TRUE)

----------------------------------------------------------------------------
\* floor(a / b) as the spec writes it, b # 0.
FloorRange == -8..8

Floor(a, b) ==
    CHOOSE q \in FloorRange :
        IF b > 0 THEN q * b <= a /\ a < (q + 1) * b
                 ELSE q * b >= a /\ a > (q + 1) * b

\* The k-th callback of a row-major scan, k from 1.
GridCall(a, k) ==
    LET columns == Floor(a[3] - a[1], a[5]) + 1
        xi == (k - 1) % columns
        yi == (k - 1) \div columns
    IN  [args |-> <<a[1] + xi * a[5], a[2] + yi * a[6], xi, yi>>,
         at |-> Position(a[1] + xi * a[5], a[2] + yi * a[6])]

\* C3: a raster scan whose moves all succeeded (it returned True), with steps
\* that progress from start to end (x_points >= 0, y_points >= 0), has called
\* back exactly (x_points+1)*(y_points+1) times, row by row (Y outer, X
\* inner), the k-th time with (x_start + xi*x_step, y_start + yi*y_step, xi,
\* yi) and with the cached position at that point (move_to to it had
\* succeeded); (0,0)->(500,500) step (100,100) makes 36 callbacks, from
\* (0,0) to (500,500).
C3_RasterVisits ==
    (Returned /\ call.op = "raster_scan" /\ ret = RetBool(TRUE)
        /\ call.args[5] # 0 /\ call.args[6] # 0
        /\ Floor(call.args[3] - call.args[1], call.args[5]) >= 0
        /\ Floor(call.args[4] - call.args[2], call.args[6]) >= 0)
        => LET a == call.args
               x_points == Floor(a[3] - a[1], a[5])
               y_points == Floor(a[4] - a[2], a[6])
           IN  /\ Len(calls) = (x_points + 1) * (y_points + 1)
               /\ \A k \in 1..Len(calls) : calls[k] = GridCall(a, k)
               /\ a = <<0, 0, 500, 500, 100, 100, 0, 0>>
                    => /\ Len(calls) = 36
                       /\ calls[1].args = <<0, 0, 0, 0>>
                       /\ calls[2].args = <<100, 0, 1, 0>>
                       /\ calls[7].args = <<0, 100, 0, 1>>
                       /\ calls[36].args = <<500, 500, 5, 5>>

\* The scan of example.py has run to its end.
C3_Witness ==
    /\ Returned
    /\ call.op = "raster_scan"
    /\ call.args = <<0, 0, 500, 500, 100, 100, 0, 0>>
    /\ ret = RetBool(TRUE)
    /\ Len(calls) = 36

----------------------------------------------------------------------------
\* raster_scan has just got False back from a move_to.
ScanMoveFailed ==
    /\ At("raster_scan", "plan") \/ At("raster_scan", "visit")
    /\ ~ret.b

\* C4: raster_scan aborts at the first move_to that fails: its next step is
\* to return False, with nothing more written to or read from the channel and
\* no further callback; and a scan that returned False ended on the failed
\* exchange (a MOVE not answered OK, or a POSITION query on a controller that
\* is not enabled), its callbacks being the grid's first points only.
C4_AbortOnFailedMove ==
    /\ [][ScanMoveFailed
            => /\ stack' = <<>>
               /\ ret' = RetBool(FALSE)
               /\ exc' = ""
               /\ log' = log
               /\ calls' = calls
               /\ position' = position]_vars
    /\ []((Returned /\ call.op = "raster_scan" /\ ret = RetBool(FALSE))
            => /\ Len(log) >= 2
               /\ log[Len(log)].k = "r"
               /\ \/ /\ IsMoveWrite(log[Len(log) - 1])
                     /\ log[Len(log)].d # OkLine
                  \/ /\ log[Len(log) - 1] = Wrote(POSITION)
                     /\ ~enabled
               /\ \A k \in 1..Len(calls) :
                    calls[k].args[1] = call.args[1] + calls[k].args[3] * call.args[5]
                    /\ calls[k].args[2] = call.args[2] + calls[k].args[4] * call.args[6])

\* A scan that failed in mid-course, after some callbacks.
C4_Witness ==
    /\ Returned
    /\ call.op = "raster_scan"
    /\ ret = RetBool(FALSE)
    /\ Len(calls) = 3
    /\ log[Len(log)].d = ErrLine

----------------------------------------------------------------------------
\* C5: disconnect() on a controller that is not connected (never connected,
\* or disconnected before) raises nothing, changes no state and writes
\* nothing to the channel (no DISABLE in particular), at every step of the
\* call and when it has returned.
C5_DisconnectIdempotent ==
    (call.op = "disconnect" /\ entry.serial_conn # "open")
        => /\ exc = ""
           /\ log = <<>>
           /\ StateUnchanged
           /\ Done => ret = RetNone

\* A second disconnect() of a controller whose first one left enabled set.
C5_Witness ==
    /\ Returned
    /\ call.op = "disconnect"
    /\ entry.serial_conn = "closed"
    /\ entry.enabled

----------------------------------------------------------------------------
\* C6: get_position() on a connected controller sends POSITION; when the
\* reply is a well-formed "POS X=<int> Y=<int>" line the cached position
\* becomes (X, Y) and is returned; when the reply is text that does not start
\* with "POS X=" (a timeout's empty line included) the cached position is
\* unchanged and the previous value is returned.
C6_GetPosition ==
    (Done /\ call.op = "get_position" /\ entry.serial_conn = "open")
        => /\ Len(log) \in {1, 2}
           /\ log[1] = Wrote(POSITION)
           /\ Len(log) = 2
                => /\ log[2].k = "r"
                   /\ \A p \in ReportedPos :
                        log[2].d = PosLine(p[1], p[2])
                            => /\ Returned
                               /\ position = Position(p[1], p[2])
                               /\ ret = RetPos(Position(p[1], p[2]))
                   /\ log[2].d \in NonPosLines
                        => /\ Returned
                           /\ position = entry.position
                           /\ ret = RetPos(entry.position)
           /\ Len(log) = 1 => exc = "SerialException" /\ position = entry.position
           /\ enabled = entry.enabled

\* The device reported (12,-3) while another position was cached.
C6_Witness ==
    /\ Returned
    /\ call.op = "get_position"
    /\ log = <<Wrote(POSITION), Event("r", PosLine(12, -3))>>
    /\ entry.position = Position(1, -1)
    /\ position = Position(12, -3)

----------------------------------------------------------------------------
MutatingOps ==
    {"enable", "disable", "move_relative", "move_to", "home", "emergency_stop",
     "set_limits"}

\* C7 as claimed: every state-mutating command called while the controller
\* is not connected fails with the not-connected error (ConnectionError,
\* line 79) and writes nothing to the channel.
C7_NotConnectedError ==
    (Done /\ call.op \in MutatingOps /\ entry.serial_conn # "open")
        => /\ exc = "ConnectionError"
           /\ log = <<>>

----------------------------------------------------------------------------
\* C8: connect() returns True only if the port opened and the line read from
\* it contains READY; when the port does not open, when the read times out
\* (empty line) and when the banner is text without READY, it returns False.
C8_ConnectNeedsReady ==
    (Done /\ call.op = "connect")
        => /\ (Returned /\ ret.b)
                => /\ Len(log) = 2
                   /\ log[1] = Event("open", <<>>)
                   /\ log[2].k = "r"
                   /\ log[2].d \in {ReadyLine, BannerLine}
                   /\ serial_conn = "open"
           /\ log = <<>> => ret = RetBool(FALSE) /\ exc = ""
           /\ (Len(log) = 2 /\ log[2].d \in NonReadyLines)
                => ret = RetBool(FALSE) /\ exc = ""

\* A banner with READY inside a longer line is accepted.
C8_Witness ==
    /\ Returned
    /\ call.op = "connect"
    /\ ret = RetBool(TRUE)
    /\ log = <<Event("open", <<>>), Event("r", BannerLine)>>

----------------------------------------------------------------------------
\* C9 as claimed: whatever bytes the channel delivers as the banner,
\* connect() lets no exception other than a ConnectionError reach the caller.
C9_OnlyConnectionError ==
    (Done /\ call.op = "connect") => exc \in {"", "ConnectionError"}

----------------------------------------------------------------------------
\* C10 as claimed: disconnect() on a connected controller writes DISABLE
\* before the close if enabled is true, and writes no DISABLE if enabled is
\* false.
C10_DisableOnlyIfEnabled ==
    (call.op = "disconnect" /\ entry.serial_conn = "open")
        => /\ entry.enabled
                => \A i \in 1..Len(log) :
                     log[i].k = "close"
                         => \E j \in 1..(i - 1) : log[j] = Wrote(DISABLE)
           /\ ~entry.enabled
                => \A i \in 1..Len(log) : log[i] # Wrote(DISABLE)

\* C10 amended: disconnect() on a connected controller writes DISABLE
\* whether enabled is true or false, as the first thing it does on the
\* channel; the close, when it comes, comes after that write and the read of
\* its reply, and nothing else is written.  (There is no close when the
\* DISABLE exchange raises.)
C10_DisableBeforeClose ==
    (call.op = "disconnect" /\ entry.serial_conn = "open")
        => /\ Done => (Len(log) >= 1 /\ log[1] = Wrote(DISABLE))
           /\ \A i \in 1..Len(log) :
                /\ log[i].k = "w" => (i = 1 /\ log[i] = Wrote(DISABLE))
                /\ log[i].k = "close"
                     => (i = 3 /\ log[1] = Wrote(DISABLE) /\ log[2].k = "r")
           /\ serial_conn = "closed" <=> (Len(log) = 3 /\ log[3].k = "close")

\* A connected controller that is not enabled is disconnected.
C10_Witness ==
    /\ Returned
    /\ call.op = "disconnect"
    /\ entry.serial_conn = "open"
    /\ ~entry.enabled
    /\ log = <<Wrote(DISABLE), Event("r", OkLine), Event("close", <<>>)>>
    /\ serial_conn = "closed"

----------------------------------------------------------------------------
\* C11: at most one command is outstanding on the channel at any time, in
\* any sequence of calls (move_relative, move_to and raster_scan with their
\* several commands included): a command line is written only when no
\* earlier command is still waiting for its reply, i.e. after the readline()
\* for the previous command has come back (with a line, or empty at the
\* timeout) or has failed; and between calls nothing is outstanding.
C11_OneOutstanding ==
    /\ [](/\ outstanding \in {0, 1}
          /\ outstanding = 1 <=> At("_send_command", "read")
          /\ stack = <<>> => outstanding = 0)
    /\ [][(log' # log /\ log' # <<>> /\ log'[Len(log')].k = "w")
            => /\ outstanding = 0
               /\ outstanding' = IF exc' = "" THEN 1 ELSE 0
               /\ log # <<>> => log[Len(log)].k = "r"]_vars

\* A scan's second POSITION query is waiting for its reply, after the
\* first query and a MOVE have each been answered.
C11_Witness ==
    /\ call.op = "raster_scan"
    /\ At("_send_command", "read")
    /\ outstanding = 1
    /\ Len(log) = 5
    /\ log[1] = Wrote(POSITION)
    /\ log[2].k = "r"
    /\ IsMoveWrite(log[3])
    /\ log[4] = Event("r", OkLine)
    /\ log[5] = Wrote(POSITION)

----------------------------------------------------------------------------
\* The log's last event is a read that timed out.
TimedOut == log # <<>> /\ log[Len(log)] = Event("r", TimeoutLine)

\* C12 as claimed: a command whose reply does not come within the read
\* timeout fails with a Timeout error; it does not end with a normal result.
C12_TimeoutError ==
    (Done /\ call.op # "connect" /\ TimedOut) => exc = "Timeout"

----------------------------------------------------------------------------
\* What int() and the indexing of lines 109-110, 198-201, 211-216 raise.
ParseErrors == {"IndexError", "ValueError"}

\* C13 as claimed: whatever line answers them, get_position, get_status and
\* get_safety_status end without a parsing exception.
C13_NoParseCrash ==
    (Done /\ call.op \in {"get_position", "get_status", "get_safety_status"})
        => exc \notin ParseErrors

----------------------------------------------------------------------------
\* The i-th event of the log is a reply other than OK.
NotOkAt(i) == log[i].k = "r" /\ log[i].d # OkLine

\* C14: in move_relative(dx, dy) on an enabled, connected controller a MOVE
\* that is not answered OK is the last thing on the channel: after a failed
\* MOVE X no MOVE Y is written, after a failed MOVE Y no compensating MOVE;
\* the reply goes straight to move_relative, which returns False (the reply
\* being text), and the cached position is what it was before the call,
\* also when MOVE X had succeeded.
C14_PartialFailure ==
    (call.op = "move_relative" /\ entry.enabled /\ entry.serial_conn = "open")
        => /\ \A i \in 1..Len(log) : NotOkAt(i) => i = Len(log)
           /\ (\E i \in 1..Len(log) : NotOkAt(i))
                => /\ position = entry.position
                   /\ Len(stack) <= 1
                   /\ (Done /\ Decodable(log[Len(log)].d))
                        => Returned /\ ret = RetBool(FALSE)
           /\ (Len(log) = 4 /\ NotOkAt(4))
                => /\ log[1] = Wrote(MoveCmd("X", call.args[1]))
                   /\ log[2] = Event("r", OkLine)
                   /\ log[3] = Wrote(MoveCmd("Y", call.args[2]))
                   /\ call.args[1] # 0

\* MOVE X 1 was answered OK, MOVE Y -1 was not: False, and (0,0) still cached.
C14_Witness ==
    /\ Returned
    /\ call = [op |-> "move_relative", args |-> <<1, -1>>]
    /\ log = <<Wrote(MoveCmd("X", 1)), Event("r", OkLine),
               Wrote(MoveCmd("Y", -1)), Event("r", ErrLine)>>
    /\ ret = RetBool(FALSE)
    /\ entry.position = Position(0, 0)
    /\ position = Position(0, 0)

----------------------------------------------------------------------------
\* C15 as claimed: after set_limits(xmin, xmax, ymin, ymax) was answered OK
\* and returned True, the limits the session has stored are
\* (xmin, xmax, ymin, ymax).
C15_LimitsStored ==
    (Returned /\ call.op = "set_limits" /\ ret = RetBool(TRUE)) => limits = call.args

----------------------------------------------------------------------------
\* A zero step, or a step that leads away from the end (v as in raster_scan).
BadSteps(v) ==
    \/ v[5] = 0
    \/ v[6] = 0
    \/ (v[3] - v[1]) * v[5] < 0
    \/ (v[4] - v[2]) * v[6] < 0

\* C16 as claimed: raster_scan with a zero or wrong-sign step neither
\* reports a successful scan nor ends in an arithmetic exception.
C16_ConfigurationError ==
    (Done /\ call.op = "raster_scan" /\ BadSteps(call.args))
        => /\ exc # "ZeroDivisionError"
           /\ ~(Returned /\ ret = RetBool(TRUE))

----------------------------------------------------------------------------
\* The camera methods that document "Raises: DMK37Error: If not connected".
CameraNeedsConnection ==
    {"DMK37Controller_start_acquisition", "DMK37Controller_set_exposure",
     "DMK37Controller_set_gain", "DMK37Controller_set_roi",
     "DMK37Controller_set_trigger_mode", "DMK37Controller_set_trigger_source",
     "DMK37Controller_software_trigger"}

\* The template methods that document "Raises: DeviceError: If not connected".
TemplateNeedsConnection ==
    {"TemplateController_initialize", "TemplateController_reset",
     "TemplateController_get_status", "TemplateController_set_enabled",
     "TemplateController_set_mode", "TemplateController_set_timeout"}

\* C17: each of these methods, called while connected is False, raises the
\* module's base error (DMK37Error, DeviceError), asks nothing of the
\* platform driver and leaves every field of the controller, the cached
\* settings among them, as it was.
C17_NotConnectedRaises ==
    [][/\ (call'.op \in CameraNeedsConnection /\ ~camera.connected)
            => /\ exc' = "DMK37Error"
               /\ driver_calls' = <<>>
               /\ camera' = camera
       /\ (call'.op \in TemplateNeedsConnection /\ ~template.connected)
            => /\ exc' = "DeviceError"
               /\ driver_calls' = <<>>
               /\ template' = template]_vars

\* set_exposure(1000) on a camera that was set to 5000 and then disconnected.
C17_Witness ==
    /\ call = [op |-> "DMK37Controller_set_exposure", args |-> <<1000>>]
    /\ exc = "DMK37Error"
    /\ ~camera.connected
    /\ camera.exposure = 5000
    /\ driver_calls = <<>>

----------------------------------------------------------------------------
\* The feature that guards a method, "" for a method without such a guard.
GuardOf(op) ==
    CASE op = "DMK37Controller_set_exposure" -> "exposure"
      [] op = "DMK37Controller_set_gain" -> "gain"
      [] op = "DMK37Controller_set_roi" -> "roi"
      [] op = "DMK37Controller_set_trigger_mode" -> "hardwareTrigger"
      [] op = "DMK37Controller_set_trigger_source" -> "hardwareTrigger"
      [] op = "DMK37Controller_software_trigger" -> "softwareTrigger"
      [] op = "TemplateController_set_enabled" -> "basicControl"
      [] op = "TemplateController_set_mode" -> "advancedControl"
      [] OTHER -> ""

\* The table marks the feature unsupported, or does not list it.
Unsupported(caps, feature) ==
    feature \notin DOMAIN caps.features \/ caps.features[feature] = FALSE

\* C18: on a connected controller, a capability-guarded method whose feature
\* the capability table marks unsupported or does not list raises
\* UnsupportedFeatureError, asks nothing of the platform driver and leaves
\* every field of the controller as it was.
C18_UnsupportedRaises ==
    [][/\ (/\ call'.op \in CameraNeedsConnection
           /\ GuardOf(call'.op) # ""
           /\ camera.connected
           /\ Unsupported(capabilities.camera, GuardOf(call'.op)))
            => /\ exc' = "UnsupportedFeatureError"
               /\ driver_calls' = <<>>
               /\ camera' = camera
       /\ (/\ call'.op \in TemplateNeedsConnection
           /\ GuardOf(call'.op) # ""
           /\ template.connected
           /\ Unsupported(capabilities.template, GuardOf(call'.op)))
            => /\ exc' = "UnsupportedFeatureError"
               /\ driver_calls' = <<>>
               /\ template' = template]_vars

\* set_gain(50) on a connected camera whose table lists the triggers only.
C18_Witness ==
    /\ call = [op |-> "DMK37Controller_set_gain", args |-> <<50>>]
    /\ exc = "UnsupportedFeatureError"
    /\ camera.connected
    /\ capabilities.camera = CameraTriggersOnly
    /\ camera.gain = 0
    /\ driver_calls = <<>>

----------------------------------------------------------------------------
\* The command of enable, disable, home.
CommandOf(op) ==
    CASE op = "enable" -> ENABLE
      [] op = "disable" -> DISABLE
      [] op = "home" -> HOME

\* C19: enable, disable and home on a connected controller write their one
\* command; answered OK they return True, enable having set enabled, disable
\* having cleared it, home having set the cached position to (0,0), and
\* nothing else changed; with any other reply enabled and position stay as
\* they were, and the call returns False (the reply being text); nothing
\* changes before the reply is in.
C19_CommitOnSuccess ==
    (call.op \in {"enable", "disable", "home"} /\ entry.serial_conn = "open")
        => /\ Len(log) <= 2
           /\ Len(log) >= 1 => log[1] = Wrote(CommandOf(call.op))
           /\ (Done /\ Len(log) = 2 /\ log[2] = Event("r", OkLine))
                => /\ Returned
                   /\ ret = RetBool(TRUE)
                   /\ enabled = (IF call.op = "enable" THEN TRUE
                                 ELSE IF call.op = "disable" THEN FALSE
                                 ELSE entry.enabled)
                   /\ position = (IF call.op = "home" THEN Position(0, 0)
                                  ELSE entry.position)
           /\ ~(Done /\ Len(log) = 2 /\ log[2] = Event("r", OkLine))
                => enabled = entry.enabled /\ position = entry.position
           /\ (Done /\ Len(log) = 2 /\ log[2].d # OkLine /\ Decodable(log[2].d))
                => Returned /\ ret = RetBool(FALSE)
           /\ serial_conn = entry.serial_conn

\* home() at (1,-1) was answered ERR: False, and (1,-1) still cached.
C19_Witness ==
    /\ Returned
    /\ call.op = "home"
    /\ log = <<Wrote(HOME), Event("r", ErrLine)>>
    /\ ret = RetBool(FALSE)
    /\ entry.position = Position(1, -1)
    /\ position = Position(1, -1)

----------------------------------------------------------------------------
\* The commands move_relative(dx, dy) has to send, in order.
MovesFor(dx, dy) ==
    (IF dx # 0 THEN <<Wrote(MoveCmd("X", dx))>> ELSE <<>>)
        \o (IF dy # 0 THEN <<Wrote(MoveCmd("Y", dy))>> ELSE <<>>)

IsWrite(ev) == ev.k = "w"

IsRead(ev) == ev.k = "r"

\* C20: move_relative(dx, dy) on an enabled controller writes MOVE X dx
\* only if dx # 0 and MOVE Y dy only if dy # 0, X before Y, and nothing
\* else: what it has written is always a beginning of that list.  The cached
\* position changes only when every command of the list has been written
\* and answered OK, and then to the old one plus (dx, dy); when all were
\* answered OK the call returns True.
C20_MoveOrder ==
    (call.op = "move_relative" /\ entry.enabled)
        => LET moves == MovesFor(call.args[1], call.args[2])
               written == SelectSeq(log, IsWrite)
               replies == SelectSeq(log, IsRead)
               all_ok == /\ Len(replies) = Len(moves)
                         /\ \A i \in 1..Len(replies) : replies[i].d = OkLine
           IN  /\ Len(written) <= Len(moves)
               /\ written = SubSeq(moves, 1, Len(written))
               /\ position # entry.position => (Returned /\ all_ok)
               /\ (Done /\ all_ok /\ (moves # <<>> => entry.serial_conn = "open"))
                    => /\ Returned
                       /\ ret = RetBool(TRUE)
                       /\ position = Position(entry.position.x + call.args[1],
                                              entry.position.y + call.args[2])

\* Only the Y axis moves: one command, MOVE Y 1, and the position follows.
C20_Witness ==
    /\ Returned
    /\ call = [op |-> "move_relative", args |-> <<0, 1>>]
    /\ log = <<Wrote(MoveCmd("Y", 1)), Event("r", OkLine)>>
    /\ entry.position = Position(1, -1)
    /\ position = Position(1, 0)

----------------------------------------------------------------------------
\* C21 as claimed: move_relative and move_to, called on a connected
\* controller whose enabled flag is False, write nothing to the channel,
\* leave the cached position as it was, and return False.
C21_ValidateBeforeSend ==
    (/\ call.op \in {"move_relative", "move_to"}
     /\ entry.serial_conn = "open"
     /\ ~entry.enabled)
        => /\ log = <<>>
           /\ position = entry.position
           /\ Done => (Returned /\ ret = RetBool(FALSE))

----------------------------------------------------------------------------
\* The record of StatusLine, field by field.
StatusLineRecord == [enabled |-> TRUE, moving |-> FALSE, x_pos |-> 1, y_pos |-> -1]

\* The record of SafetyLine: x_limit_min is set, the other five flags are not.
SafetyLineRecord == <<FALSE, TRUE, FALSE, FALSE, FALSE, FALSE>>

\* C22 as claimed: get_status() and get_safety_status(), answered with a
\* line of text, return the record of the line's fields when the line is a
\* well-formed report of their kind and the all-false/zero default record
\* for any other line; enabled and the cached position stay as they were.
C22_DefaultOnMalformed ==
    (/\ Done
     /\ call.op \in {"get_status", "get_safety_status"}
     /\ Len(log) = 2
     /\ log[2].k = "r"
     /\ Decodable(log[2].d))
        => /\ Returned
           /\ call.op = "get_status"
                => ret = RetStatus(IF log[2].d = StatusLine
                                   THEN StatusLineRecord ELSE DefaultStatus)
           /\ call.op = "get_safety_status"
                => ret = RetSafety(IF log[2].d = SafetyLine
                                   THEN SafetyLineRecord ELSE DefaultSafety)
           /\ StateUnchanged

----------------------------------------------------------------------------
\* C23 as claimed: disconnect() on a connected controller ends without an
\* exception and with the channel closed, whatever became of its DISABLE.
C23_AlwaysCloses ==
    (Done /\ call.op = "disconnect" /\ entry.serial_conn = "open")
        => exc = "" /\ serial_conn = "closed"

----------------------------------------------------------------------------
\* C24 as claimed: when connect() has returned False the controller is
\* not connected: _send_command would refuse at line 78 and write nothing.
C24_FailedConnectDisconnected ==
    (Returned /\ call.op = "connect" /\ ret = RetBool(FALSE)) => NotConnected

----------------------------------------------------------------------------
\* The cached settings the limits guard, and the test of each (lines
\* 193-197, 226-230, 262-266).
OutOfLimits(op, args, lim) ==
    CASE op = "DMK37Controller_set_exposure"
            -> \/ args[1] < Get(lim, "minExposure", 1)
               \/ args[1] > Get(lim, "maxExposure", 1000000)
      [] op = "DMK37Controller_set_gain"
            -> \/ args[1] < Get(lim, "minGain", 0)
               \/ args[1] > Get(lim, "maxGain", 100)
      [] op = "DMK37Controller_set_roi"
            -> \/ args[3] > Get(lim, "maxWidth", 1920)
               \/ args[4] > Get(lim, "maxHeight", 1080)
      [] OTHER -> FALSE

\* The cached field a limited setter sets, and the value it is given.
LimitedField(op) ==
    CASE op = "DMK37Controller_set_exposure" -> "exposure"
      [] op = "DMK37Controller_set_gain" -> "gain"
      [] op = "DMK37Controller_set_roi" -> "roi"

LimitedValue(op, args) == IF op = "DMK37Controller_set_roi" THEN args ELSE args[1]

LimitedSetters ==
    {"DMK37Controller_set_exposure", "DMK37Controller_set_gain", "DMK37Controller_set_roi"}

\* C25: on a connected camera with the feature supported, set_exposure and
\* set_gain given a value outside [min, max], and set_roi given a width or
\* height above the maximum, raise DMK37Error, ask nothing of the driver and
\* leave the camera as it was.  A cached exposure, gain or roi changes only
\* in a call of its setter in which the driver was asked and returned True,
\* and then to the value given, which is within the limits; a setter that
\* returned True has cached its value.  So each cached value is the initial
\* one or one within the limits.
C25_LimitsGuardCache ==
    /\ [][LET op == call'.op
              args == call'.args
              lim == capabilities.camera.limits
          IN  /\ (/\ op \in LimitedSetters
                  /\ camera.connected
                  /\ ~Unsupported(capabilities.camera, GuardOf(op))
                  /\ OutOfLimits(op, args, lim))
                    => /\ exc' = "DMK37Error"
                       /\ driver_calls' = <<>>
                       /\ camera' = camera
              /\ \A f \in {"exposure", "gain", "roi"} :
                    camera'[f] # camera[f]
                        => /\ op \in LimitedSetters
                           /\ LimitedField(op) = f
                           /\ ~OutOfLimits(op, args, lim)
                           /\ driver_calls' = <<DriverCall(f, args)>>
                           /\ exc' = ""
                           /\ ret' = RetBool(TRUE)
                           /\ camera'[f] = LimitedValue(op, args)
              /\ (op \in LimitedSetters /\ exc' = "" /\ ret' = RetBool(TRUE))
                    => camera'[LimitedField(op)] = LimitedValue(op, args)]_vars
    /\ [](LET lim == capabilities.camera.limits
          IN  /\ \/ camera.exposure = CameraNew.exposure
                 \/ ~OutOfLimits("DMK37Controller_set_exposure", <<camera.exposure>>, lim)
              /\ \/ camera.gain = CameraNew.gain
                 \/ ~OutOfLimits("DMK37Controller_set_gain", <<camera.gain>>, lim)
              /\ \/ camera.roi = CameraNew.roi
                 \/ ~OutOfLimits("DMK37Controller_set_roi", camera.roi, lim))

\* set_gain(101) is refused on a camera whose gain, limited to 50, was set
\* to 50 before.
C25_Witness ==
    /\ call = [op |-> "DMK37Controller_set_gain", args |-> <<101>>]
    /\ exc = "DMK37Error"
    /\ camera.connected
    /\ capabilities.camera = CameraFull
    /\ camera.gain = 50
    /\ driver_calls = <<>>

----------------------------------------------------------------------------
\* C26 as claimed: a line that readline() has just returned to a command
\* (the empty line of a timeout apart) is the device's reply to that very
\* command, the one written last, also when the device is slow.
C26_OwnReply ==
    (/\ Len(log) >= 2
     /\ log[Len(log)].k = "r"
     /\ log[Len(log)].d # TimeoutLine
     /\ log[Len(log) - 1].k = "w")
        => log[Len(log) - 1] = Wrote(wire.answers)

----------------------------------------------------------------------------
\* C27 as claimed: enabled is True only while the channel is open.
C27_EnabledImpliesConnected == enabled => serial_conn = "open"

----------------------------------------------------------------------------
\* C28 as claimed: connected turns True only in a connect() that returns
\* True, and a connect() that raises ConnectionError leaves connected
\* False, whatever the capability table holds.
C28_ConnectedOnlyOnTrue ==
    [][/\ (camera'.connected /\ ~camera.connected)
            => /\ call'.op = "DMK37Controller_connect"
               /\ exc' = ""
               /\ ret' = RetBool(TRUE)
       /\ (template'.connected /\ ~template.connected)
            => /\ call'.op = "TemplateController_connect"
               /\ exc' = ""
               /\ ret' = RetBool(TRUE)
       /\ (call'.op = "DMK37Controller_connect" /\ exc' = "ConnectionError")
            => ~camera'.connected
       /\ (call'.op = "TemplateController_connect" /\ exc' = "ConnectionError")
            => ~template'.connected]_vars

----------------------------------------------------------------------------
\* C29 as claimed: the camera acquires only while connected.
C29_AcquiringImpliesConnected == camera.acquiring => camera.connected

----------------------------------------------------------------------------
\* C30: when move_to(x, y) has returned True the cached position is (x, y),
\* whatever answered its POSITION query and wherever the cache was before.
C30_MoveToReachesTarget ==
    (Returned /\ call.op = "move_to" /\ ret = RetBool(TRUE))
        => position = Position(call.args[1], call.args[2])

\* move_to(0, 1) from a cached (1,-1): the query timed out, both MOVEs were
\* answered OK.
C30_Witness ==
    /\ Returned
    /\ call = [op |-> "move_to", args |-> <<0, 1>>]
    /\ ret = RetBool(TRUE)
    /\ entry.position = Position(1, -1)
    /\ log = <<Wrote(POSITION), Event("r", TimeoutLine),
               Wrote(MoveCmd("X", -1)), Event("r", OkLine),
               Wrote(MoveCmd("Y", 2)), Event("r", OkLine)>>
    /\ position = Position(0, 1)

====
